---- MODULE Spec2Model ----
(***************************************************************************)
(* HexaHunt: hexagonal dots-and-boxes with treasures and artifacts.        *)
(* Model of the game-state core in src/game_logic.py: board construction   *)
(* (init_state), move application (apply_move) and the two item actions    *)
(* (use_gauntlet, use_compass), and of the search engine in                *)
(* src/third_checkpoint/ai.py (hash_state, order_moves, minimax).          *)
(*                                                                         *)
(* Geometry.  init_state identifies an edge by the rounded pixel           *)
(* coordinates of its two end points.  The model uses the exact lattice    *)
(* the pixels are an affine image of: one x unit is size*sqrt(3)/2 pixels  *)
(* and one y unit is size/2 pixels, so the centre of cell (q, r) is        *)
(* (2q + r, 3r) and the six corners lie at the offsets of VertexOffset.    *)
(* At the default 800x800 window the rounding of the source maps equal     *)
(* lattice points to equal pixels, so both give the same topology.         *)
(***************************************************************************)
EXTENDS Integers, Sequences, FiniteSets, TLC

\* ------------------------------------------------------------------ bounds
\* Number of random outcomes (shuffle + treasure kinds) Init draws from.
MaxSeeds == 2
\* use_compass targets are drawn from the first MaxTargets cells of the board.
MaxTargets == 1
\* apply_move calls on an already owned edge in one behaviour of SpecAny.
MaxInvalid == 1
\* Only the first DeferWindow edges of the board can be skipped over by a mover.
DeferWindow == 1
\* Explicit amounts handed to use_gauntlet range over -MaxAmount..MaxAmount.
MaxAmount == 2
\* The search is run on positions with at most SearchWindow unclaimed edges.
SearchWindow == 4

\* The turns a match around the items may pass on the spare cell.
MaxSpare == 2

\* --------------------------------------------------------------- constants
BOARD_RADIUS == 2

TreasureNames == <<"copper", "silver", "gold", "platinum", "diamond">>

TREASURES ==
    [t \in {"copper", "silver", "gold", "platinum", "diamond"} |->
        CASE t = "copper"   -> 1
          [] t = "silver"   -> 3
          [] t = "gold"     -> 5
          [] t = "platinum" -> 8
          [] t = "diamond"  -> 8]

ARTIFACTS == <<"hourglass", "gauntlet", "compass">>

Players == {0, 1}

\* Python's None where a cell or an edge is expected.
None == <<>>

\* ----------------------------------------------------------------- helpers
Abs(x) == IF x < 0 THEN -x ELSE x

Max3(a, b, c) ==
    LET m == IF a > b THEN a ELSE b IN IF m > c THEN m ELSE c

Min3(a, b, c) ==
    LET m == IF a < b THEN a ELSE b IN IF m < c THEN m ELSE c

Range(seq) == {seq[i] : i \in 1..Len(seq)}

\* dict.pop(key, None): the mapping without key (unchanged if key is absent).
Pop(d, key) == [k \in DOMAIN d \ {key} |-> d[k]]

\* d[key] = val on a dict: the key is added when it is new.
Put(d, key, val) == [k \in DOMAIN d \cup {key} |-> IF k = key THEN val ELSE d[k]]

\* ---------------------------------------------------------------- topology
\* Corner i of a pointy-top hexagon (angle 60*i - 30 degrees), lattice units.
VertexOffset ==
    <<  <<1, -1>>, <<1, 1>>, <<0, 2>>, <<-1, 1>>, <<-1, -1>>, <<0, -2>> >>

polygon_vertices(center) ==
    [i \in 1..6 |-> <<center[1] + VertexOffset[i][1], center[2] + VertexOffset[i][2]>>]

\* Python tuple order on points.
PointLeq(v1, v2) == v1[1] < v2[1] \/ (v1[1] = v2[1] /\ v1[2] <= v2[2])

normalize_edge(v1, v2) == IF PointLeq(v1, v2) THEN <<v1, v2>> ELSE <<v2, v1>>

\* for q in range(-R, R+1): for r in range(-R, R+1): keep the hex disk.
ValidCells(board_radius) ==
    LET w    == 2 * board_radius + 1
        grid == [i \in 1..(w * w) |-> <<((i - 1) \div w) - board_radius,
                                        ((i - 1) % w) - board_radius>>]
    IN  SelectSeq(grid, LAMBDA c :
            Max3(Abs(c[1]), Abs(c[2]), Abs(-c[1] - c[2])) <= board_radius)

valid_cells == ValidCells(BOARD_RADIUS)

Cells == Range(valid_cells)

\* The board of the next radius of the settings screen, the least one with
\* more than one artifact cell.
LargeRadius == BOARD_RADIUS + 1

large_valid_cells == ValidCells(LargeRadius)

LargeCells == Range(large_valid_cells)

CellCenter(cell) == <<2 * cell[1] + cell[2], 3 * cell[2]>>

\* The six edges of a cell, which are the same on every board it is on.
cell_edges ==
    [cell \in LargeCells |->
        LET vertices == polygon_vertices(CellCenter(cell))
        IN  [i \in 1..6 |-> normalize_edge(vertices[i], vertices[(i % 6) + 1])]]

\* The keys of state['edges'] in insertion order: cell by cell, side by side,
\* an edge entering at its first occurrence.
EdgeOrderOf(cells) ==
    LET n   == Len(cells)
        all == [k \in 1..(6 * n) |->
                   cell_edges[cells[((k - 1) \div 6) + 1]][((k - 1) % 6) + 1]]
        idx == SelectSeq([k \in 1..(6 * n) |-> k],
                         LAMBDA k : \A j \in 1..(k - 1) : all[j] # all[k])
    IN  [i \in 1..Len(idx) |-> all[idx[i]]]

EdgeOrder == EdgeOrderOf(valid_cells)

Edges == Range(EdgeOrder)

NumEdges == Len(EdgeOrder)

LargeEdgeOrder == EdgeOrderOf(large_valid_cells)

LargeEdges == Range(LargeEdgeOrder)

\* state['edge_cells']: the cells of the board on each of its edges.
EdgeCellsOf(cells, edges) ==
    [edge \in edges |->
        SelectSeq(cells, LAMBDA c : edge \in Range(cell_edges[c]))]

edge_cells == EdgeCellsOf(valid_cells, Edges)

large_edge_cells == EdgeCellsOf(large_valid_cells, LargeEdges)

\* The maps a state object carries for its board: the cells in order, the
\* keys of state['edges'] in order, and state['edge_cells'].  The first cell
\* of the large board is one of its outer ring.
SmallBoard ==
    [valid_cells |-> valid_cells, EdgeOrder |-> EdgeOrder,
     edge_cells |-> edge_cells]

LargeBoard ==
    [valid_cells |-> large_valid_cells, EdgeOrder |-> LargeEdgeOrder,
     edge_cells |-> large_edge_cells]

\* The board of s is the large one when s has a cell of the outer ring.
BoardOf(s) ==
    IF large_valid_cells[1] \in DOMAIN s.cells THEN LargeBoard ELSE SmallBoard

\* ------------------------------------------------------ board construction
\* random.shuffle(shuffled): the permutation drawn for a seed (a rotation of
\* valid_cells, so every seed gives a permutation).  Seed 0 puts the artifact
\* of a radius-2 board on the second cell and a treasure on the first.
ShuffledOf(cells, seed) ==
    LET n == Len(cells)
    IN  [i \in 1..n |-> cells[(((i - 1) + 9 + 8 * seed) % n) + 1]]

Shuffled(seed) == ShuffledOf(valid_cells, seed)

\* random.choice(list(TREASURES.keys())) for the i-th treasure cell.
TreasureChoice(seed, i) == TreasureNames[((i + seed) % Len(TreasureNames)) + 1]

\* random.choice(ARTIFACTS) for the k-th artifact cell, k = 0, 1, ...: the
\* choices are independent, pick holds one digit for each of them.
RECURSIVE ArtifactChoice(_, _)
ArtifactChoice(pick, k) ==
    IF k = 0
    THEN ARTIFACTS[(pick % Len(ARTIFACTS)) + 1]
    ELSE ArtifactChoice(pick \div Len(ARTIFACTS), k - 1)

TreasureCountOf(cells) == (Len(cells) * 6) \div 10

ArtifactCountOf(cells) == Len(cells) \div 10

TreasureCount == TreasureCountOf(valid_cells)

ArtifactCount == ArtifactCountOf(valid_cells)

\* init_state for the board of the given cells and edges.
InitStateOf(cells, edges, seed, pick) ==
    LET shuffled == ShuffledOf(cells, seed)
        tcount   == TreasureCountOf(cells)
        acount   == ArtifactCountOf(cells)
        tcells   == {shuffled[i] : i \in 1..tcount}
        acells   == {shuffled[i] : i \in (tcount + 1)..(tcount + acount)}
        pos(c)   == CHOOSE i \in 1..Len(shuffled) : shuffled[i] = c
    IN  [cells               |-> [c \in Range(cells) |-> -1],
         edges               |-> [e \in edges |-> -1],
         turn                |-> 0,
         score               |-> [p \in Players |-> 0],
         last_move           |-> None,
         treasures           |-> [c \in tcells |-> TreasureChoice(seed, pos(c))],
         artifacts           |-> [c \in acells |->
                                     ArtifactChoice(pick, pos(c) - tcount - 1)],
         claimed_items       |-> [c \in {} |-> ""],
         gauntlet_available  |-> [p \in Players |-> FALSE],
         gauntlet_timer      |-> [p \in Players |-> 0],
         gauntlet_cell       |-> [p \in Players |-> None],
         last_treasure_value |-> [p \in Players |-> 0],
         compass_available   |-> [p \in Players |-> FALSE],
         compass_cell        |-> [p \in Players |-> None]]

\* init_state(BOARD_RADIUS, ...).
init_state(seed, pick) == InitStateOf(valid_cells, Edges, seed, pick)

\* ------------------------------------------------------------------ queries
get_possible_moves(s) ==
    SelectSeq(BoardOf(s).EdgeOrder, LAMBDA e : s.edges[e] = -1)

\* Variant: terminal as soon as any edge has an owner.
is_terminal_any(s) == \E e \in DOMAIN s.edges : s.edges[e] # -1

is_terminal(s) == \A e \in DOMAIN s.edges : s.edges[e] # -1

evaluate(s) == s.score[1] - s.score[0]

\* state['hourglass_bonus'][p]; the key is absent until the first apply_move.
HourglassBonus(s, p) ==
    IF "hourglass_bonus" \in DOMAIN s THEN s.hourglass_bonus[p] ELSE 0

\* ---------------------------------------------------------------- apply_move
\* Variant: copy.copy(state), a new top-level dict whose container values
\* are still the objects of the original.
DeepcopyShallow(s) == [obj |-> s, shared |-> DOMAIN s \ {"turn", "last_move"}]

\* copy.deepcopy(state): the copy, and the fields of the copy whose container
\* is the same object as the original's (none for a deep copy).
deepcopy(s) == [obj |-> s, shared |-> {}]

\* new_state.setdefault(...): only hourglass_bonus can be missing.
SetDefaults(s) ==
    IF "hourglass_bonus" \in DOMAIN s
    THEN s
    ELSE s @@ ("hourglass_bonus" :> [p \in Players |-> 0])

\* Variant: the timer counts down but the gauntlet is kept when it reaches 0.
DecrementGauntletNoExpiry(s, player) ==
    IF s.gauntlet_available[player] /\ s.gauntlet_timer[player] > 0
    THEN [s EXCEPT !.gauntlet_timer[player] = @ - 1]
    ELSE s

\* Decrement gauntlet lifespan if held; remove it when it reaches 0.
DecrementGauntlet(s, player) ==
    IF s.gauntlet_available[player] /\ s.gauntlet_timer[player] > 0
    THEN LET s1 == [s EXCEPT !.gauntlet_timer[player] = @ - 1]
         IN  IF s1.gauntlet_timer[player] = 0
             THEN LET cell0 == s1.gauntlet_cell[player]
                  IN  [s1 EXCEPT !.artifacts = Pop(@, cell0),
                                 !.claimed_items = Pop(@, cell0),
                                 !.gauntlet_available[player] = FALSE,
                                 !.gauntlet_cell[player] = None]
             ELSE s1
    ELSE s

\* Variant: the move is recorded but the edge is not given to the player.
MarkEdgeLastOnly(s, move, player) ==
    [s EXCEPT !.last_move = move]

\* Mark the edge.
MarkEdge(s, move, player) ==
    [s EXCEPT !.edges[move] = player, !.last_move = move]

\* Variant: a cell counts as complete with its first five sides drawn.
CellCompletedFive(s, cell) ==
    /\ s.cells[cell] = -1
    /\ \A i \in 1..5 : s.edges[cell_edges[cell][i]] # -1

CellCompleted(s, cell) ==
    /\ s.cells[cell] = -1
    /\ \A i \in 1..6 : s.edges[cell_edges[cell][i]] # -1

\* Treasure logic of a completed cell.
ClaimTreasure(s, cell, player) ==
    IF cell \in DOMAIN s.treasures
    THEN LET t == s.treasures[cell]
             v == TREASURES[t]
         IN  [s EXCEPT !.score[player] = @ + v,
                       !.claimed_items = Put(@, cell, t),
                       !.last_treasure_value[player] = v]
    ELSE s

\* Variant: the hourglass is recorded but banks no bonus turn (the rule of
\* the earlier snapshots, where it only set the extra-turn flag).
ClaimArtifactNoBank(s, cell, player) ==
    IF cell \in DOMAIN s.artifacts
    THEN LET a  == s.artifacts[cell]
             s1 == [s EXCEPT !.claimed_items = Put(@, cell, a)]
         IN  CASE a = "hourglass" -> s1
               [] a = "gauntlet" ->
                    [s1 EXCEPT !.gauntlet_available[player] = TRUE,
                               !.gauntlet_timer[player] = 5,
                               !.gauntlet_cell[player] = cell,
                               !.artifacts = Pop(@, cell)]
               [] a = "compass" ->
                    [s1 EXCEPT !.compass_available[player] = TRUE,
                               !.compass_cell[player] = cell]
               [] OTHER -> s1
    ELSE s

\* Variant: a picked-up gauntlet stays in the artifacts map.
ClaimArtifactKeepGauntlet(s, cell, player) ==
    IF cell \in DOMAIN s.artifacts
    THEN LET a  == s.artifacts[cell]
             s1 == [s EXCEPT !.claimed_items = Put(@, cell, a)]
         IN  CASE a = "hourglass" ->
                    [s1 EXCEPT !.hourglass_bonus[player] = @ + 1]
               [] a = "gauntlet" ->
                    [s1 EXCEPT !.gauntlet_available[player] = TRUE,
                               !.gauntlet_timer[player] = 5,
                               !.gauntlet_cell[player] = cell]
               [] a = "compass" ->
                    [s1 EXCEPT !.compass_available[player] = TRUE,
                               !.compass_cell[player] = cell]
               [] OTHER -> s1
    ELSE s

\* Artifact logic of a completed cell.
ClaimArtifact(s, cell, player) ==
    IF cell \in DOMAIN s.artifacts
    THEN LET a  == s.artifacts[cell]
             s1 == [s EXCEPT !.claimed_items = Put(@, cell, a)]
         IN  CASE a = "hourglass" ->
                    [s1 EXCEPT !.hourglass_bonus[player] = @ + 1]
               [] a = "gauntlet" ->
                    [s1 EXCEPT !.gauntlet_available[player] = TRUE,
                               !.gauntlet_timer[player] = 5,
                               !.gauntlet_cell[player] = cell,
                               !.artifacts = Pop(@, cell)]
               [] a = "compass" ->
                    [s1 EXCEPT !.compass_available[player] = TRUE,
                               !.compass_cell[player] = cell]
               [] OTHER -> s1
    ELSE s

\* Variant: a completed cell gives no base point, only its treasure.
CompleteCellNoBase(acc, cell, player) ==
    IF CellCompleted(acc.new_state, cell)
    THEN LET s1 == [acc.new_state EXCEPT !.cells[cell] = player]
         IN  [new_state  |-> ClaimArtifact(ClaimTreasure(s1, cell, player), cell, player),
              extra_turn |-> TRUE]
    ELSE acc

\* Body of the loop over the cells adjacent to the move.
CompleteCell(acc, cell, player) ==
    IF CellCompleted(acc.new_state, cell)
    THEN LET s1 == [acc.new_state EXCEPT !.cells[cell] = player,
                                         !.score[player] = @ + 1]
         IN  [new_state  |-> ClaimArtifact(ClaimTreasure(s1, cell, player), cell, player),
              extra_turn |-> TRUE]
    ELSE acc

RECURSIVE CompleteCells(_, _, _, _)
CompleteCells(acc, cells, i, player) ==
    IF i > Len(cells)
    THEN acc
    ELSE CompleteCells(CompleteCell(acc, cells[i], player), cells, i + 1, player)

\* Variant: a banked bonus grants the extra turn but is never used up.
SpendBonusKeep(acc, player) ==
    IF ~acc.extra_turn /\ acc.new_state.hourglass_bonus[player] > 0
    THEN [new_state  |-> acc.new_state, extra_turn |-> TRUE]
    ELSE acc

\* Spend a banked hourglass bonus when the move earned no extra turn.
SpendBonus(acc, player) ==
    IF ~acc.extra_turn /\ acc.new_state.hourglass_bonus[player] > 0
    THEN [new_state  |-> [acc.new_state EXCEPT !.hourglass_bonus[player] = @ - 1],
          extra_turn |-> TRUE]
    ELSE acc

\* Variant: the turn passes to the other player after every move.
SwitchTurnAlways(acc, player) ==
    [acc EXCEPT !.new_state.turn = 1 - player]

\* Switch turn if no extra_turn.
SwitchTurn(acc, player) ==
    IF ~acc.extra_turn
    THEN [acc EXCEPT !.new_state.turn = 1 - player]
    ELSE acc

\* (new_state, extra_turn) as returned, and the fields of new_state that
\* alias the input.
apply_move(s, move, player) ==
    LET cp  == deepcopy(s)
        s0  == DecrementGauntlet(SetDefaults(cp.obj), player)
        s1  == MarkEdge(s0, move, player)
        acc == CompleteCells([new_state |-> s1, extra_turn |-> FALSE],
                             BoardOf(s).edge_cells[move], 1, player)
        res == SwitchTurn(SpendBonus(acc, player), player)
    IN  [new_state |-> res.new_state, extra_turn |-> res.extra_turn,
         shared |-> cp.shared]

\* Variant: any cell of the board can be the target, whoever owns it.
use_compass_any_target(s, player, target_cell) ==
    IF ~s.compass_available[player] \/ s.compass_cell[player] = None
    THEN s
    ELSE LET source   == s.compass_cell[player]
             opponent == 1 - player
         IN  IF target_cell \notin DOMAIN s.cells
             THEN s
             ELSE LET s1 == [s EXCEPT !.cells = [c \in DOMAIN @ |->
                                          IF c = target_cell THEN player
                                          ELSE IF c = source THEN opponent
                                          ELSE @[c]],
                                      !.artifacts = Pop(@, source),
                                      !.claimed_items = Pop(@, source)]
                      vs == IF source \in DOMAIN s1.treasures
                            THEN TREASURES[s1.treasures[source]] ELSE 0
                      s2 == [s1 EXCEPT !.score[player] = @ - vs,
                                       !.score[opponent] = @ + vs]
                      vt == IF target_cell \in DOMAIN s2.treasures
                            THEN TREASURES[s2.treasures[target_cell]] ELSE 0
                      s3 == [s2 EXCEPT !.score[opponent] = @ - vt,
                                       !.score[player] = @ + vt]
                  IN  [s3 EXCEPT !.compass_available[player] = FALSE,
                                 !.compass_cell[player] = None]

\* Variant: the source cell stays with the player and the compass is kept.
use_compass_keep_source(s, player, target_cell) ==
    IF ~s.compass_available[player] \/ s.compass_cell[player] = None
    THEN s
    ELSE LET source   == s.compass_cell[player]
             opponent == 1 - player
         IN  IF target_cell \notin DOMAIN s.cells \/ s.cells[target_cell] # opponent
             THEN s
             ELSE LET s1 == [s EXCEPT !.cells[target_cell] = player,
                                      !.artifacts = Pop(@, source),
                                      !.claimed_items = Pop(@, source)]
                      vs == IF source \in DOMAIN s1.treasures
                            THEN TREASURES[s1.treasures[source]] ELSE 0
                      s2 == [s1 EXCEPT !.score[player] = @ - vs,
                                       !.score[opponent] = @ + vs]
                      vt == IF target_cell \in DOMAIN s2.treasures
                            THEN TREASURES[s2.treasures[target_cell]] ELSE 0
                  IN  [s2 EXCEPT !.score[opponent] = @ - vt,
                                 !.score[player] = @ + vt]

\* Variant: the treasure points of the target are taken from the opponent
\* but not given to the player.
use_compass_points_lost(s, player, target_cell) ==
    IF ~s.compass_available[player] \/ s.compass_cell[player] = None
    THEN s
    ELSE LET source   == s.compass_cell[player]
             opponent == 1 - player
         IN  IF target_cell \notin DOMAIN s.cells \/ s.cells[target_cell] # opponent
             THEN s
             ELSE LET s1 == [s EXCEPT !.cells = [c \in DOMAIN @ |->
                                          IF c = target_cell THEN player
                                          ELSE IF c = source THEN opponent
                                          ELSE @[c]],
                                      !.artifacts = Pop(@, source),
                                      !.claimed_items = Pop(@, source)]
                      vs == IF source \in DOMAIN s1.treasures
                            THEN TREASURES[s1.treasures[source]] ELSE 0
                      s2 == [s1 EXCEPT !.score[player] = @ - vs,
                                       !.score[opponent] = @ + vs]
                      vt == IF target_cell \in DOMAIN s2.treasures
                            THEN TREASURES[s2.treasures[target_cell]] ELSE 0
                      s3 == [s2 EXCEPT !.score[opponent] = @ - vt]
                  IN  [s3 EXCEPT !.compass_available[player] = FALSE,
                                 !.compass_cell[player] = None]

\* -------------------------------------------------------------- use_compass
use_compass(s, player, target_cell) ==
    IF ~s.compass_available[player] \/ s.compass_cell[player] = None
    THEN s
    ELSE LET source   == s.compass_cell[player]
             opponent == 1 - player
         IN  IF target_cell \notin DOMAIN s.cells \/ s.cells[target_cell] # opponent
             THEN s
             ELSE LET s1 == [s EXCEPT !.cells = [c \in DOMAIN @ |->
                                          IF c = target_cell THEN player
                                          ELSE IF c = source THEN opponent
                                          ELSE @[c]],
                                      !.artifacts = Pop(@, source),
                                      !.claimed_items = Pop(@, source)]
                      vs == IF source \in DOMAIN s1.treasures
                            THEN TREASURES[s1.treasures[source]] ELSE 0
                      s2 == [s1 EXCEPT !.score[player] = @ - vs,
                                       !.score[opponent] = @ + vs]
                      vt == IF target_cell \in DOMAIN s2.treasures
                            THEN TREASURES[s2.treasures[target_cell]] ELSE 0
                      s3 == [s2 EXCEPT !.score[opponent] = @ - vt,
                                       !.score[player] = @ + vt]
                  IN  [s3 EXCEPT !.compass_available[player] = FALSE,
                                 !.compass_cell[player] = None]

\* Variant: the stolen points are credited but not taken from the opponent.
use_gauntlet_no_debit(s, player, amount) ==
    LET opponent == 1 - player
        last_val == s.last_treasure_value[opponent]
    IN  IF ~s.gauntlet_available[player]
        THEN s
        ELSE IF last_val <= 0
        THEN s
        ELSE LET steal0 == IF amount # <<>> THEN amount[1] ELSE last_val
                 steal  == Min3(steal0, last_val, s.score[opponent])
                 s2     == [s EXCEPT !.score[player] = @ + steal]
                 cell0  == s2.gauntlet_cell[player]
             IN  [s2 EXCEPT !.artifacts = Pop(@, cell0),
                            !.claimed_items = Pop(@, cell0),
                            !.gauntlet_available[player] = FALSE,
                            !.gauntlet_timer[player] = 0,
                            !.gauntlet_cell[player] = None]

\* Variant: an available gauntlet is used even when the opponent's last
\* treasure value is 0.
use_gauntlet_no_floor(s, player, amount) ==
    LET opponent == 1 - player
        last_val == s.last_treasure_value[opponent]
    IN  IF ~s.gauntlet_available[player]
        THEN s
        ELSE LET steal0 == IF amount # <<>> THEN amount[1] ELSE last_val
                 steal  == Min3(steal0, last_val, s.score[opponent])
                 s1     == [s EXCEPT !.score[opponent] = @ - steal]
                 s2     == [s1 EXCEPT !.score[player] = @ + steal]
                 cell0  == s2.gauntlet_cell[player]
             IN  [s2 EXCEPT !.artifacts = Pop(@, cell0),
                            !.claimed_items = Pop(@, cell0),
                            !.gauntlet_available[player] = FALSE,
                            !.gauntlet_timer[player] = 0,
                            !.gauntlet_cell[player] = None]

\* Variant: the steal is capped by the last treasure value only, not by the
\* opponent's score.
use_gauntlet_uncapped(s, player, amount) ==
    LET opponent == 1 - player
        last_val == s.last_treasure_value[opponent]
    IN  IF ~s.gauntlet_available[player]
        THEN s
        ELSE IF last_val <= 0
        THEN s
        ELSE LET steal0 == IF amount # <<>> THEN amount[1] ELSE last_val
                 steal  == IF steal0 < last_val THEN steal0 ELSE last_val
                 s1     == [s EXCEPT !.score[opponent] = @ - steal]
                 s2     == [s1 EXCEPT !.score[player] = @ + steal]
                 cell0  == s2.gauntlet_cell[player]
             IN  [s2 EXCEPT !.artifacts = Pop(@, cell0),
                            !.claimed_items = Pop(@, cell0),
                            !.gauntlet_available[player] = FALSE,
                            !.gauntlet_timer[player] = 0,
                            !.gauntlet_cell[player] = None]

\* Variant: a steal of less than the last treasure value leaves the
\* gauntlet with the player.
use_gauntlet_keep_on_partial(s, player, amount) ==
    LET opponent == 1 - player
        last_val == s.last_treasure_value[opponent]
    IN  IF ~s.gauntlet_available[player]
        THEN s
        ELSE IF last_val <= 0
        THEN s
        ELSE LET steal0 == IF amount # <<>> THEN amount[1] ELSE last_val
                 steal  == Min3(steal0, last_val, s.score[opponent])
                 s1     == [s EXCEPT !.score[opponent] = @ - steal]
                 s2     == [s1 EXCEPT !.score[player] = @ + steal]
                 cell0  == s2.gauntlet_cell[player]
             IN  IF steal < last_val
                 THEN s2
                 ELSE [s2 EXCEPT !.artifacts = Pop(@, cell0),
                                 !.claimed_items = Pop(@, cell0),
                                 !.gauntlet_available[player] = FALSE,
                                 !.gauntlet_timer[player] = 0,
                                 !.gauntlet_cell[player] = None]

\* ------------------------------------------------------------- use_gauntlet
\* amount is a sequence: << >> for None, <<n>> for the number n.
use_gauntlet(s, player, amount) ==
    LET opponent == 1 - player
        last_val == s.last_treasure_value[opponent]
    IN  IF ~s.gauntlet_available[player]
        THEN s
        ELSE IF last_val <= 0
        THEN s
        ELSE LET steal0 == IF amount # <<>> THEN amount[1] ELSE last_val
                 steal  == Min3(steal0, last_val, s.score[opponent])
                 s1     == [s EXCEPT !.score[opponent] = @ - steal]
                 s2     == [s1 EXCEPT !.score[player] = @ + steal]
                 cell0  == s2.gauntlet_cell[player]
             IN  [s2 EXCEPT !.artifacts = Pop(@, cell0),
                            !.claimed_items = Pop(@, cell0),
                            !.gauntlet_available[player] = FALSE,
                            !.gauntlet_timer[player] = 0,
                            !.gauntlet_cell[player] = None]

\* ------------------------------------------------------------ state machine
VARIABLES
    state,      \* the state object the caller holds (the game's current state)
    input,      \* the object last handed to apply_move, as it is now
    shared,     \* fields of state whose container is the same object as input's
    ret,        \* the last call: operation, arguments and returned flag
    nmoves,     \* number of apply_move calls so far
    ninvalid,   \* number of apply_move calls on an already owned edge
    transposition_table, \* the table object of run_game_loop
    settings    \* the settings dict of main() and the screen it is on

vars == <<state, input, shared, ret, nmoves, ninvalid, transposition_table,
          settings>>

\* The record of a call.  raised: the call ended with an exception (no
\* operation of game_logic.py raises one).  amount: the explicit amount of a
\* use_gauntlet call, << >> when none was given.  search: <<depth, value,
\* prior>> of a minimax call, << >> for the other operations; prior is
\* << >> when the table was empty and <<d>> when the deepest search that
\* filled the table was one of this same state at depth d.  audit: what was
\* observed of the calls a minimax call made, << >> for the others.  A
\* run_game_loop call records in search the <<DEPTH, radius>> it handed to
\* the search and to init_state.
Call(op, player, move, target, extra_turn) ==
    [op |-> op, player |-> player, move |-> move, target |-> target,
     extra_turn |-> extra_turn, raised |-> FALSE, amount |-> <<>>,
     search |-> <<>>, audit |-> <<>>]

\* settings while a match with the defaults of main() is running.
MatchSettings ==
    [board_radius |-> 2, ai_depth |-> 3, current_state |-> "GAME_RUNNING"]

\* The empty transposition table.
EmptyTable == [k \in {} |-> [value |-> 0, move |-> None, depth |-> 0]]

\* The input object after a write to the fields of new that alias it.
WriteThrough(old, new, alias) ==
    [f \in DOMAIN old |-> IF f \in alias THEN new[f] ELSE old[f]]

Seeds == 0..(MaxSeeds - 1)

Picks == 0..(Len(ARTIFACTS) - 1)

\* Cells offered to use_compass: the first cells of the board and one
\* coordinate that is not on the board.
OffBoardCell == <<5, 6>>

TargetCells == {valid_cells[i] : i \in 1..MaxTargets} \cup {OffBoardCell}

Init ==
    \E seed \in Seeds, pick \in Picks :
        /\ state = init_state(seed, pick)
        /\ input = state
        /\ shared = {}
        /\ ret = Call("init_state", 0, None, None, FALSE)
        /\ nmoves = 0
        /\ ninvalid = 0
        /\ transposition_table = EmptyTable
        /\ settings = MatchSettings

\* The caller's step  state, extra_turn = apply_move(state, move, player).
DoApplyMove(move, player) ==
    LET res == apply_move(state, move, player)
    IN  /\ state' = res.new_state
        /\ input' = WriteThrough(state, res.new_state, res.shared)
        /\ shared' = res.shared
        /\ ret' = Call("apply_move", player, move, None, res.extra_turn)
        /\ nmoves' = nmoves + 1

\* The edges a mover may leave for later.
DeferrableEdges == {EdgeOrder[i] : i \in 1..DeferWindow}

\* The edges a mover is offered: the first possible move and, while that is
\* one of the first DeferWindow edges of the board, the possible move after
\* it (so one early edge at a time can be left for last while the others
\* are played in the order of get_possible_moves).
OfferedMoves(s) ==
    LET moves == get_possible_moves(s)
    IN  IF moves = <<>> THEN {}
        ELSE {Head(moves)}
             \cup (IF Head(moves) \in DeferrableEdges /\ Len(moves) > 1
                   THEN {moves[2]} ELSE {})

\* A move of the player to move on an unclaimed edge.
ApplyMove ==
    \E move \in OfferedMoves(state) :
        /\ DoApplyMove(move, state.turn)
        /\ UNCHANGED <<ninvalid, transposition_table, settings>>

\* state = use_gauntlet(state, player): the object is changed in place.  A
\* call that returns the state as it was is a stuttering step.
UseGauntlet ==
    \E player \in Players :
        /\ use_gauntlet(state, player, <<>>) # state
        /\ state' = use_gauntlet(state, player, <<>>)
        /\ input' = WriteThrough(input, state', shared)
        /\ ret' = Call("use_gauntlet", player, None, None, FALSE)
        /\ UNCHANGED <<shared, nmoves, ninvalid, transposition_table, settings>>

\* state = use_compass(state, player, target_cell): changed in place.  A
\* call that returns the state as it was is a stuttering step.
UseCompass ==
    \E player \in Players, target_cell \in TargetCells :
        /\ use_compass(state, player, target_cell) # state
        /\ state' = use_compass(state, player, target_cell)
        /\ input' = WriteThrough(input, state', shared)
        /\ ret' = Call("use_compass", player, None, target_cell, FALSE)
        /\ UNCHANGED <<shared, nmoves, ninvalid, transposition_table, settings>>

Next == ApplyMove \/ UseGauntlet \/ UseCompass

Spec == Init /\ [][Next]_vars

\* The owned edges a careless caller may hand to apply_move.
OwnedEdges(s) == SelectSeq(EdgeOrder, LAMBDA e : s.edges[e] # -1)

\* apply_move called by the player to move on an edge that has an owner.
ApplyMoveOwned ==
    LET owned == OwnedEdges(state)
    IN  /\ ninvalid < MaxInvalid
        /\ \E i \in 1..(DeferWindow + 1) :
               /\ i <= Len(owned)
               /\ DoApplyMove(owned[i], state.turn)
               /\ ninvalid' = ninvalid + 1
               /\ UNCHANGED <<transposition_table, settings>>

\* A call of Next by a caller that has not yet offered an owned edge.
LegalCall == ninvalid < MaxInvalid /\ Next

NextAny == LegalCall \/ ApplyMoveOwned

\* The core operations with no pre-filtering of the edge by the caller, up
\* to the MaxInvalid-th call on an owned edge.
SpecAny == Init /\ [][NextAny]_vars

\* --------------------------------------------------------------- the match
\* The cell the testing overrides of run_game_loop put a gauntlet on.
TestGauntletCell == <<0, 1>>

\* The testing overrides run_game_loop applies to every fresh state: a
\* gauntlet on TestGauntletCell (replacing an artifact drawn for that cell,
\* next to a treasure drawn for it) and a gold treasure under a key that is
\* not a cell of the board.
TestOverrides(s) ==
    [s EXCEPT !.artifacts = Put(@, TestGauntletCell, "gauntlet"),
              !.treasures = Put(@, OffBoardCell, "gold")]

\* The state a match of run_game_loop starts from.
MatchInit ==
    \E seed \in Seeds, pick \in Picks :
        /\ state = TestOverrides(init_state(seed, pick))
        /\ input = state
        /\ shared = {}
        /\ ret = Call("init_state", 0, None, None, FALSE)
        /\ nmoves = 0
        /\ ninvalid = 0
        /\ transposition_table = EmptyTable
        /\ settings = MatchSettings

\* The core operations on the states of a match.
SpecMatch == MatchInit /\ [][Next]_vars

\* The values of the optional parameter amount of use_gauntlet.
GauntletAmounts == {<<>>} \cup {<<n>> : n \in (-MaxAmount)..MaxAmount}

\* state = use_gauntlet(state, player, amount) with an explicit amount.  The
\* game loop never passes one; a call that returns the state as it was is a
\* stuttering step.
UseGauntletAmount ==
    \E player \in Players, amount \in GauntletAmounts \ {<<>>} :
        /\ use_gauntlet(state, player, amount) # state
        /\ state' = use_gauntlet(state, player, amount)
        /\ input' = WriteThrough(input, state', shared)
        /\ ret' = [Call("use_gauntlet", player, None, None, FALSE)
                      EXCEPT !.amount = amount]
        /\ UNCHANGED <<shared, nmoves, ninvalid, transposition_table, settings>>

\* A call of Next in a match where no explicit amount has been passed yet.
MatchCall == ret.amount = <<>> /\ Next

NextAmount == MatchCall \/ UseGauntletAmount

\* The match, up to the first use_gauntlet call with an explicit amount.
SpecAmount == MatchInit /\ [][NextAmount]_vars

\* ----------------------------------------------------------- search engine
\* math.inf: larger than every score difference of the board.
Infinity == 10000

\* hash_state: the hash of the sorted (edge, owner) pairs, that is of the
\* owner-of-edge map; two states get the same key exactly when every edge
\* has the same owner in both.
hash_state(s) == s.edges

\* Variant: the move itself is not counted.
EdgesDrawnWithoutMove(s, cell, move) ==
    Cardinality({e \in Range(cell_edges[cell]) : s.edges[e] # -1})

\* The number of edges of cell that are drawn once move is.
EdgesDrawn(s, cell, move) ==
    Cardinality({e \in Range(cell_edges[cell]) : e = move \/ s.edges[e] # -1})

\* What an unclaimed cell next to move adds to the ordering score of move.
CellScore(s, cell, move) ==
    IF s.cells[cell] # -1 THEN 0
    ELSE IF EdgesDrawn(s, cell, move) = 6 THEN 100
    ELSE IF EdgesDrawn(s, cell, move) = 5 THEN 50
    ELSE 0

MoveScore(s, move) ==
    LET cs == BoardOf(s).edge_cells[move]
    IN  CellScore(s, cs[1], move)
        + (IF Len(cs) > 1 THEN CellScore(s, cs[2], move) ELSE 0)

\* sorted(move_scores, key = score, reverse = maximizing_player): a stable
\* sort, so moves of equal score keep the order of moves.
order_moves(s, moves, maximizing_player) ==
    LET scored(v) == SelectSeq(moves, LAMBDA m : MoveScore(s, m) = v)
    IN  IF maximizing_player
        THEN scored(200) \o scored(150) \o scored(100) \o scored(50) \o scored(0)
        ELSE scored(0) \o scored(50) \o scored(100) \o scored(150) \o scored(200)

\* Variants: the entry is taken whatever its depth; the entry is taken when
\* it is at most as deep as depth.
TableHasAny(table, state_hash, depth) ==
    state_hash \in DOMAIN table

TableHasShallow(table, state_hash, depth) ==
    state_hash \in DOMAIN table /\ table[state_hash].depth <= depth

\* state_hash in transposition_table and its entry was searched at least
\* as deep as depth.
TableHas(table, state_hash, depth) ==
    state_hash \in DOMAIN table /\ table[state_hash].depth >= depth

\* The element of a one-element set.  { F(x) : x \in {e} } evaluates e once
\* however often F uses x.
Only(S) == CHOOSE x \in S : TRUE

\* What is observed of a call of minimax and of the calls below it:
\* leaf_exact: every call with depth 0 or a terminal state returned
\*             (evaluate(state), None);
\* flag_turn:  maximizingPlayer was (state['turn'] == 1) in every call;
\* hits_deep:  every result read from the table was stored with at least
\*             the depth of the call that read it;
\* height:     the longest chain of calls below this one;
\* move_legal: every call on a state with an unclaimed edge returned an
\*             unclaimed edge of that state;
\* move_deep:  the same of the calls with depth >= 1;
\* kept:       a simulated move returned extra_turn = True;
\* flipped:    a simulated move returned extra_turn = False;
\* first_best: every call that examined moves returned the first of them,
\*             in the order examined, whose value is the returned value;
\* ties:       in some call a later move had the returned value as well;
\* stores_up:  every store went to a key that was absent or held a result
\*             of a smaller depth.
NodeAudit(s, depth, maximizingPlayer, value, move, stored) ==
    [leaf_exact |-> (depth = 0 \/ is_terminal(s))
                        => (value = evaluate(s) /\ move = None),
     move_legal |-> is_terminal(s) \/ move \in Range(get_possible_moves(s)),
     move_deep  |-> is_terminal(s) \/ depth < 1
                        \/ move \in Range(get_possible_moves(s)),
     flag_turn  |-> maximizingPlayer = (s.turn = 1),
     hits_deep  |-> stored = <<>> \/ stored[1] >= depth,
     kept       |-> FALSE,
     flipped    |-> FALSE,
     first_best |-> TRUE,
     ties       |-> FALSE,
     stores_up  |-> TRUE,
     height     |-> 0]

NoAudit == [leaf_exact |-> TRUE, move_legal |-> TRUE, move_deep |-> TRUE,
            flag_turn |-> TRUE, hits_deep |-> TRUE, kept |-> FALSE,
            flipped |-> FALSE, first_best |-> TRUE, ties |-> FALSE,
            stores_up |-> TRUE, height |-> 0]

\* The audit of a call, given those of the calls it made so far and that
\* of one more child.
WithChild(audit, child) ==
    [leaf_exact |-> audit.leaf_exact /\ child.leaf_exact,
     move_legal |-> audit.move_legal /\ child.move_legal,
     move_deep  |-> audit.move_deep /\ child.move_deep,
     flag_turn  |-> audit.flag_turn /\ child.flag_turn,
     hits_deep  |-> audit.hits_deep /\ child.hits_deep,
     kept       |-> audit.kept \/ child.kept,
     flipped    |-> audit.flipped \/ child.flipped,
     first_best |-> audit.first_best /\ child.first_best,
     ties       |-> audit.ties \/ child.ties,
     stores_up  |-> audit.stores_up /\ child.stores_up,
     height     |-> IF child.height + 1 > audit.height
                    THEN child.height + 1 ELSE audit.height]

\* Variant: the flag of the recursive call is always the flipped one.
ChildFlagFlipped(maximizingPlayer, extra_turn) == ~maximizingPlayer

\* The maximizingPlayer flag of the recursive call: True if extra_turn else
\* False in the maximizing branch, False if extra_turn else True in the
\* minimizing one.
ChildFlag(maximizingPlayer, extra_turn) ==
    IF maximizingPlayer THEN extra_turn ELSE ~extra_turn

\* Variant: a move whose score equals the best one so far replaces it.
ImprovesOrTies(score, best, maximizingPlayer) ==
    IF maximizingPlayer THEN score >= best ELSE score <= best

\* if score > maxEval (maximizing) / if score < minEval (minimizing).
Improves(score, best, maximizingPlayer) ==
    IF maximizingPlayer THEN score > best ELSE score < best

\* transposition_table[state_hash] = {..., 'depth': depth} writes to a key
\* that is new or holds a result of a smaller depth.
StoresUp(table, state_hash, depth) ==
    state_hash \notin DOMAIN table \/ table[state_hash].depth < depth

\* The move of the first pair <<move, score>> of seen with the given score.
FirstWith(seen, value) ==
    seen[CHOOSE i \in 1..Len(seen) :
             /\ seen[i][2] = value
             /\ \A j \in 1..(i - 1) : seen[j][2] # value][1]

RECURSIVE minimax(_, _, _, _, _, _)
RECURSIVE MaximizingLoop(_, _, _, _, _)
RECURSIVE MinimizingLoop(_, _, _, _, _)

\* One pass of the maximizing loop: move is applied as player 1, the child
\* is searched with the window and the table of acc, and acc is updated.
\* acc holds alpha, beta, the best value and move so far, the table, the
\* state object of the call (root: what apply_move has left of it) and the
\* audit of the children searched so far.
MaximizingStep(s, depth, move, acc) ==
    Only({ Only({ [alpha |-> IF child.value > acc.alpha
                             THEN child.value ELSE acc.alpha,
                   beta  |-> acc.beta,
                   value |-> IF Improves(child.value, acc.value, TRUE)
                             THEN child.value ELSE acc.value,
                   move  |-> IF Improves(child.value, acc.value, TRUE)
                             THEN move ELSE acc.move,
                   seen  |-> Append(acc.seen, <<move, child.value>>),
                   table |-> child.table,
                   root  |-> WriteThrough(acc.root, res.new_state, res.shared),
                   audit |-> [WithChild(acc.audit, child.audit)
                                 EXCEPT !.kept = @ \/ res.extra_turn,
                                        !.flipped = @ \/ ~res.extra_turn]]
                  : child \in {minimax(res.new_state, depth - 1, acc.alpha,
                                       acc.beta,
                                       ChildFlag(TRUE, res.extra_turn),
                                       acc.table)} })
           : res \in {apply_move(acc.root, move, 1)} })

\* The loop of the maximizing branch from the i-th ordered move on, left
\* at the first move after which beta <= alpha.
MaximizingLoop(s, depth, moves, i, acc) ==
    IF i > Len(moves)
    THEN acc
    ELSE Only({ IF next.beta <= next.alpha
                THEN next
                ELSE MaximizingLoop(s, depth, moves, i + 1, next)
                : next \in {MaximizingStep(s, depth, moves[i], acc)} })

\* One pass of the minimizing loop: move is applied as player 0.
MinimizingStep(s, depth, move, acc) ==
    Only({ Only({ [alpha |-> acc.alpha,
                   beta  |-> IF child.value < acc.beta
                             THEN child.value ELSE acc.beta,
                   value |-> IF Improves(child.value, acc.value, FALSE)
                             THEN child.value ELSE acc.value,
                   move  |-> IF Improves(child.value, acc.value, FALSE)
                             THEN move ELSE acc.move,
                   seen  |-> Append(acc.seen, <<move, child.value>>),
                   table |-> child.table,
                   root  |-> WriteThrough(acc.root, res.new_state, res.shared),
                   audit |-> [WithChild(acc.audit, child.audit)
                                 EXCEPT !.kept = @ \/ res.extra_turn,
                                        !.flipped = @ \/ ~res.extra_turn]]
                  : child \in {minimax(res.new_state, depth - 1, acc.alpha,
                                       acc.beta,
                                       ChildFlag(FALSE, res.extra_turn),
                                       acc.table)} })
           : res \in {apply_move(acc.root, move, 0)} })

MinimizingLoop(s, depth, moves, i, acc) ==
    IF i > Len(moves)
    THEN acc
    ELSE Only({ IF next.beta <= next.alpha
                THEN next
                ELSE MinimizingLoop(s, depth, moves, i + 1, next)
                : next \in {MinimizingStep(s, depth, moves[i], acc)} })

\* minimax(state, depth, alpha, beta, maximizingPlayer, transposition_table):
\* the value, the move, the table and the state object as the call leaves
\* them, and the audit of the call.
minimax(s, depth, alpha, beta, maximizingPlayer, table) ==
    IF TableHas(table, hash_state(s), depth)
    THEN [value |-> table[hash_state(s)].value,
          move  |-> table[hash_state(s)].move,
          table |-> table,
          root  |-> s,
          audit |-> NodeAudit(s, depth, maximizingPlayer,
                              table[hash_state(s)].value,
                              table[hash_state(s)].move,
                              <<table[hash_state(s)].depth>>)]
    ELSE IF depth = 0 \/ is_terminal(s)
    THEN [value |-> evaluate(s), move |-> None,
          table |-> Put(table, hash_state(s),
                        [value |-> evaluate(s), move |-> None,
                         depth |-> depth]),
          root  |-> s,
          audit |-> [NodeAudit(s, depth, maximizingPlayer, evaluate(s), None,
                               <<>>)
                        EXCEPT !.stores_up = StoresUp(table, hash_state(s),
                                                      depth)]]
    ELSE Only({ Only({ [value |-> r.value, move |-> r.move,
                        table |-> Put(r.table, hash_state(s),
                                      [value |-> r.value, move |-> r.move,
                                       depth |-> depth]),
                        root  |-> r.root,
                        audit |-> [WithChild(
                                      NodeAudit(s, depth, maximizingPlayer,
                                                r.value, r.move, <<>>),
                                      [r.audit EXCEPT !.height = @ - 1])
                                   EXCEPT !.first_best =
                                              /\ @
                                              /\ r.move = FirstWith(r.seen, r.value),
                                          !.ties =
                                              \/ @
                                              \/ \E i \in 1..Len(r.seen) :
                                                     /\ r.seen[i][2] = r.value
                                                     /\ r.seen[i][1] # r.move,
                                          !.stores_up =
                                              /\ @
                                              /\ StoresUp(r.table,
                                                          hash_state(s),
                                                          depth)]]
                       : r \in {IF maximizingPlayer
                                THEN MaximizingLoop(s, depth, ordered, 1,
                                         [alpha |-> alpha, beta |-> beta,
                                          value |-> -Infinity, move |-> None,
                                          table |-> table, root |-> s,
                                          seen |-> <<>>,
                                          audit |-> NoAudit])
                                ELSE MinimizingLoop(s, depth, ordered, 1,
                                         [alpha |-> alpha, beta |-> beta,
                                          value |-> Infinity, move |-> None,
                                          table |-> table, root |-> s,
                                          seen |-> <<>>,
                                          audit |-> NoAudit])} })
                : ordered \in {order_moves(s, get_possible_moves(s),
                                           maximizingPlayer)} })

\* settings['ai_depth']: the depth buttons keep it between 2 and 4.
Depths == 2..4

\* Two edges of the first cell that the movers keep for the endgame.
HeldEdges == {EdgeOrder[3], EdgeOrder[4]}

\* The edges a mover is offered in a match that is played up to a search:
\* the first possible move outside HeldEdges, and every possible move once
\* at most SearchWindow edges are unclaimed.
EndgameMoves(s) ==
    LET moves == get_possible_moves(s)
        rest  == SelectSeq(moves, LAMBDA e : e \notin HeldEdges)
    IN  IF Len(moves) <= SearchWindow THEN Range(moves)
        ELSE IF rest = <<>> THEN {} ELSE {Head(rest)}

EndgameMove ==
    \E move \in EndgameMoves(state) :
        /\ DoApplyMove(move, state.turn)
        /\ UNCHANGED <<ninvalid, transposition_table, settings>>

\* The AI turn of run_game_loop up to the result of the search:
\* _, move = minimax(state, DEPTH, -math.inf, math.inf, True,
\*                   transposition_table),
\* for the first position of a match that is searched: the table is empty,
\* or it is as the earlier searches of this same position left it.
PriorSearch ==
    IF ret.op # "minimax" THEN <<>>
    ELSE IF ret.search[3] # <<>> /\ ret.search[3][1] > ret.search[1]
    THEN ret.search[3]
    ELSE <<ret.search[1]>>

Search ==
    \E depth \in Depths :
        /\ state.turn = 1
        /\ get_possible_moves(state) # <<>>
        /\ Len(get_possible_moves(state)) <= SearchWindow
        /\ transposition_table = EmptyTable \/ ret.op = "minimax"
        /\ \E r \in {minimax(state, depth, -Infinity, Infinity, TRUE,
                             transposition_table)} :
               /\ ret' = [Call("minimax", 1, r.move, None, FALSE)
                             EXCEPT !.search = <<depth, r.value, PriorSearch>>,
                                    !.audit = r.audit]
               /\ state' = r.root
               /\ transposition_table' = r.table
               /\ UNCHANGED settings
        /\ UNCHANGED <<input, shared, nmoves, ninvalid>>

NextSearch == EndgameMove \/ Search

SpecSearch == MatchInit /\ [][NextSearch]_vars

\* ------------------------------------------------- play around the items
AllEdgesOwnedIn(s, cell) == \A i \in 1..6 : s.edges[cell_edges[cell][i]] # -1

\* The cells a match around the items is played on: the cells that carry an
\* artifact and the cells offered to use_compass.
PlayedCells(s) == (DOMAIN s.artifacts \cup TargetCells) \cap Cells

\* The first unclaimed edge of cell, in the order of cell_edges.
FirstOpenEdge(s, cell) ==
    cell_edges[cell][CHOOSE i \in 1..6 :
                         /\ s.edges[cell_edges[cell][i]] = -1
                         /\ \A j \in 1..(i - 1) : s.edges[cell_edges[cell][j]] # -1]

\* The last cell of the board, whose edges serve to pass the turn.
SpareCell == valid_cells[Len(valid_cells)]

\* The edges a mover is offered: the first unclaimed edge of the first
\* played cell that is not closed and, while fewer than MaxSpare edges of
\* the spare cell are drawn, the first unclaimed edge of the spare cell.
ItemMoves(s) ==
    LET open == SelectSeq(valid_cells, LAMBDA c :
                    c \in PlayedCells(s) /\ ~AllEdgesOwnedIn(s, c))
        drawn == Cardinality({i \in 1..6 : s.edges[cell_edges[SpareCell][i]] # -1})
    IN  (IF open = <<>> THEN {} ELSE {FirstOpenEdge(s, Head(open))})
        \cup (IF open # <<>> /\ drawn < MaxSpare
              THEN {FirstOpenEdge(s, SpareCell)} ELSE {})

\* A move of the player to move on one of the played cells.
ItemMove ==
    \E move \in ItemMoves(state) :
        /\ DoApplyMove(move, state.turn)
        /\ UNCHANGED <<ninvalid, transposition_table, settings>>

NextItems == ItemMove \/ UseGauntlet \/ UseCompass

\* The start of a match, played on the cells of the items.
SpecItems == MatchInit /\ [][NextItems]_vars

\* ---------------------------------------------------------- game loop
\* DEPTH, set from settings['ai_depth'], whose default is 3.
DEPTH == 3

\* The edges near the positions that are clicked: the edges a mover is
\* offered, and the edge that was drawn last.
ClickedEdges(s) ==
    EndgameMoves(s) \cup (IF s.last_move = None THEN {} ELSE {s.last_move})

\* Variant: the owner of the edge is not looked at.
get_clicked_edge_any(s) == ClickedEdges(s)

\* get_clicked_edge(pos, state) over the clicked positions: only an edge
\* with owner -1 is returned.
get_clicked_edge(s) == {e \in ClickedEdges(s) : s.edges[e] = -1}

\* MOUSEBUTTONDOWN on the board: only while it is the human player's turn,
\* and only when the click is on an undrawn edge.
HumanMove ==
    /\ state.turn = 0
    /\ \E move \in get_clicked_edge(state) :
           /\ DoApplyMove(move, 0)
           /\ UNCHANGED <<ninvalid, transposition_table, settings>>

\* Key G: state = use_gauntlet(state, 0) while player 0 holds the gauntlet.
HumanGauntlet ==
    /\ ~is_terminal(state)
    /\ state.gauntlet_available[0]
    /\ state' = use_gauntlet(state, 0, <<>>)
    /\ input' = WriteThrough(input, state', shared)
    /\ ret' = Call("use_gauntlet", 0, None, None, FALSE)
    /\ UNCHANGED <<shared, nmoves, ninvalid, transposition_table, settings>>

\* Key C while player 0 holds the compass, then a click on a cell:
\* state = use_compass(state, 0, cell).
HumanCompass ==
    \E target_cell \in TargetCells \ {OffBoardCell} :
        /\ ~is_terminal(state)
        /\ state.compass_available[0]
        /\ state' = use_compass(state, 0, target_cell)
        /\ input' = WriteThrough(input, state', shared)
        /\ ret' = Call("use_compass", 0, None, target_cell, FALSE)
        /\ UNCHANGED <<shared, nmoves, ninvalid, transposition_table, settings>>

\* The move the AI plays for the move the search returned: that move, or
\* random.choice of the unplayed edges when it is None, not an edge of the
\* board or an owned edge.
ValidMoves(s, move) ==
    IF move = None \/ move \notin DOMAIN s.edges \/ s.edges[move] # -1
    THEN Range(get_possible_moves(s))
    ELSE {move}

\* The move and the table after
\* _, move = minimax(state, DEPTH, -math.inf, math.inf, True,
\*                   transposition_table).
\* The searches of the opening, with more than SearchWindow unclaimed
\* edges, are not unfolded: their move is an edge a mover is offered and
\* they leave the table as it was.
SearchResults(s, table) ==
    IF Len(get_possible_moves(s)) <= SearchWindow
    THEN {minimax(s, DEPTH, -Infinity, Infinity, TRUE, table)}
    ELSE {[move |-> m, table |-> table] : m \in EndgameMoves(s)}

\* The state after the AI's move if the loop left the gauntlet alone.
AfterAIMoveIdle(s) ==
    s

\* The state after the AI's move: the AI uses the gauntlet at once when it
\* holds it and player 0 has claimed a treasure.
AfterAIMove(s) ==
    IF s.gauntlet_available[1] /\ s.last_treasure_value[0] > 0
    THEN use_gauntlet(s, 1, <<>>)
    ELSE s

\* The AI turn of run_game_loop: while state['turn'] == 1 and an edge is
\* unclaimed, search, validate the move, apply it as player 1.
AITurn ==
    /\ state.turn = 1
    /\ get_possible_moves(state) # <<>>
    /\ \E r \in SearchResults(state, transposition_table) :
           \E move \in ValidMoves(state, r.move) :
               \E res \in {apply_move(state, move, 1)} :
                   /\ state' = AfterAIMove(res.new_state)
                   /\ input' = WriteThrough(state, state', res.shared)
                   /\ shared' = res.shared
                   /\ ret' = Call("apply_move", 1, move, None, res.extra_turn)
                   /\ nmoves' = nmoves + 1
                   /\ transposition_table' = r.table
                   /\ UNCHANGED settings
    /\ UNCHANGED ninvalid

NextLoop == HumanMove \/ HumanGauntlet \/ HumanCompass \/ AITurn

\* A match of run_game_loop with the default settings.
SpecLoop == MatchInit /\ [][NextLoop]_vars

\* Depths that the depth buttons never set.
UncheckedDepths == (-1)..1

\* A call of minimax by a caller that does not go through the settings:
\* minimax(state, depth, -math.inf, math.inf, True, {}) with a depth below
\* the least one of the settings.  minimax has no check of depth.
SearchUnchecked ==
    \E depth \in UncheckedDepths :
        /\ state.turn = 1
        /\ get_possible_moves(state) # <<>>
        /\ Len(get_possible_moves(state)) <= SearchWindow
        /\ transposition_table = EmptyTable
        /\ \E r \in {minimax(state, depth, -Infinity, Infinity, TRUE,
                             transposition_table)} :
               /\ ret' = [Call("minimax", 1, r.move, None, FALSE)
                             EXCEPT !.search = <<depth, r.value, PriorSearch>>,
                                    !.audit = r.audit]
               /\ state' = r.root
               /\ transposition_table' = r.table
               /\ UNCHANGED settings
        /\ UNCHANGED <<input, shared, nmoves, ninvalid>>

NextUnchecked == EndgameMove \/ SearchUnchecked

\* The match played up to a search with a depth that was never checked.
SpecUnchecked == MatchInit /\ [][NextUnchecked]_vars

\* ------------------------------------------------------- claim vocabulary
Owned(s, e) == s.edges[e] # -1

CellEdgeSet(c) == Range(cell_edges[c])

AllEdgesOwned(s, c) == \A e \in CellEdgeSet(c) : Owned(s, e)

\* A step is a call of apply_move / use_gauntlet / use_compass.
MoveStep == ret'.op = "apply_move"

GauntletStep == ret'.op = "use_gauntlet"

CompassStep == ret'.op = "use_compass"

\* The cells the move of this step completed.
CompletedNow == {c \in Cells : state.cells[c] = -1 /\ state'.cells[c] # -1}

\* Treasure value carried by a cell in state s (0 if none).
TreasureValue(s, c) ==
    IF c \in DOMAIN s.treasures THEN TREASURES[s.treasures[c]] ELSE 0

RECURSIVE SumOver(_, _, _)
SumOver(S, s, base) ==
    IF S = {}
    THEN 0
    ELSE LET c == CHOOSE x \in S : TRUE
         IN  base + TreasureValue(s, c) + SumOver(S \ {c}, s, base)

ClaimedCells(s) == {c \in Cells : s.cells[c] # -1}

ScoreTotal(s) == s.score[0] + s.score[1]

\* The cells next to the last move that are owned now.
LastMoveCells == {c \in Range(edge_cells[ret.move]) : state.cells[c] # -1}

\* ---------------------------------------------------------------------- C1
\* C1: in every reachable state a cell has an owner iff all 6 of its edges
\* have an owner.
C1_CellOwnedIffEdgesOwned ==
    \A c \in Cells : (state.cells[c] # -1) <=> AllEdgesOwned(state, c)

\* A compass swap has changed cell owners while other cells are still open.
C1_Witness ==
    /\ ret.op = "use_compass"
    /\ \E c \in Cells : state.cells[c] = -1
    /\ \E c \in Cells : state.cells[c] # -1 /\ AllEdgesOwned(state, c)

\* ---------------------------------------------------------------------- C2
\* C2: apply_move on an edge that already has an owner fails with InvalidMove
\* and produces no successor in which the edge's owner, the turn, the scores
\* or the item trackers differ.
C2_OwnedEdgeRejected ==
    [][(MoveStep /\ Owned(state, ret'.move)) => (ret'.raised /\ state' = state)]_vars

\* ---------------------------------------------------------------------- C3
\* C3: apply_move leaves the object it was given as it was before the call,
\* and later in-place changes of the returned state do not reach it.
C3_InputNotMutated ==
    [][/\ MoveStep => input' = state
       /\ (GauntletStep \/ CompassStep) => input' = input]_vars

\* A returned state was changed in place by an item action after a move.
C3_Witness ==
    /\ ret.op \in {"use_gauntlet", "use_compass"}
    /\ nmoves > 0
    /\ input # state

\* ---------------------------------------------------------------------- C4
\* C4: a move on an unclaimed edge gives the mover every adjacent cell that
\* was unclaimed and now has all 6 edges owned, raises the mover's score by
\* 1 plus the treasure value per such cell, leaves every other unclaimed cell
\* unclaimed and leaves the opponent's score unchanged.
C4_CompletionScoring ==
    [][(MoveStep /\ ~Owned(state, ret'.move)) =>
        LET p    == ret'.player
            done == {c \in Range(edge_cells[ret'.move]) :
                        state.cells[c] = -1 /\ AllEdgesOwned(state', c)}
        IN  /\ \A c \in done : state'.cells[c] = p
            /\ \A c \in Cells \ done : state'.cells[c] = state.cells[c]
            /\ state'.score[p] = state.score[p] + SumOver(done, state, 1)
            /\ state'.score[1 - p] = state.score[1 - p]]_vars

\* One move has completed two cells, one of them carrying a treasure.
C4_Witness ==
    /\ ret.op = "apply_move"
    /\ Cardinality(LastMoveCells) = 2
    /\ \E c \in LastMoveCells : c \in DOMAIN state.treasures

\* ---------------------------------------------------------------------- C5
\* C5: after a move of the player to move, the turn is the other player
\* exactly when extra_turn = false and the same player exactly when
\* extra_turn = true.
C5_TurnFollowsExtraTurn ==
    [][(MoveStep /\ ret'.player = state.turn) =>
        /\ (~ret'.extra_turn) <=> (state'.turn = 1 - state.turn)
        /\ ret'.extra_turn <=> (state'.turn = state.turn)]_vars

\* An extra turn that came from a consumed hourglass bonus, player 1 moving.
C5_Witness ==
    /\ ret.op = "apply_move" /\ ret.extra_turn /\ ret.player = 1
    /\ LastMoveCells = {}
    /\ state.turn = 1

\* ---------------------------------------------------------------------- C6
\* C6: a move on an unclaimed edge removes exactly that edge from
\* get_possible_moves and changes no other edge; get_possible_moves is empty
\* iff is_terminal.
C6_PossibleMovesShrink ==
    [][LET before == get_possible_moves(state)
           after  == get_possible_moves(state')
       IN  /\ (MoveStep /\ ~Owned(state, ret'.move)) =>
                /\ after = SelectSeq(before, LAMBDA e : e # ret'.move)
                /\ Len(after) = Len(before) - 1
                /\ state'.edges = [state.edges EXCEPT ![ret'.move] = state'.edges[ret'.move]]
           /\ (after = <<>>) <=> is_terminal(state')]_vars

\* The last possible move has been played: nothing is left and it is terminal.
C6_Witness ==
    /\ ret.op = "apply_move"
    /\ get_possible_moves(state) = <<>>
    /\ is_terminal(state)

\* ---------------------------------------------------------------------- C7
\* C7: in a match of moves on unclaimed edges the number of moves equals the
\* number of owned edges, the state is terminal exactly after as many moves
\* as the board has edges, and no move is possible afterwards.
C7_MovesEqualEdges ==
    /\ nmoves = Cardinality({e \in Edges : Owned(state, e)})
    /\ is_terminal(state) <=> (nmoves = NumEdges)
    /\ is_terminal(state) => OfferedMoves(state) = {}
    /\ nmoves <= NumEdges

\* A terminal state reached after extra turns and an item action.
C7_Witness ==
    /\ is_terminal(state)
    /\ nmoves = NumEdges
    /\ ret.op \in {"use_gauntlet", "use_compass"}

\* ---------------------------------------------------------------------- C8
\* C8: score[0] + score[1] equals the number of claimed cells plus the
\* treasure values of the claimed treasure cells, and use_gauntlet and
\* use_compass leave that total unchanged.
C8_ScoreIsDerived ==
    [][/\ ScoreTotal(state') = SumOver(ClaimedCells(state'), state', 1)
       /\ (GauntletStep \/ CompassStep) => ScoreTotal(state') = ScoreTotal(state)]_vars

\* A gauntlet has moved points from one player to the other.
C8_Witness ==
    /\ ret.op = "use_gauntlet"
    /\ state.score[ret.player] > 0
    /\ ScoreTotal(state) > 0

\* ---------------------------------------------------------------------- C9
\* C9: a banked hourglass bonus is consumed only by a move of its owner that
\* completes no cell (then it drops by exactly 1 and extra_turn is true); a
\* move that completes a cell does not decrease it; it is never negative.
C9_BonusConsumption ==
    [][/\ \A q \in Players : HourglassBonus(state', q) >= 0
       /\ \A q \in Players :
            HourglassBonus(state', q) < HourglassBonus(state, q) =>
                /\ MoveStep /\ ret'.player = q
                /\ CompletedNow = {}
                /\ HourglassBonus(state', q) = HourglassBonus(state, q) - 1
       /\ (MoveStep /\ CompletedNow = {} /\ HourglassBonus(state, ret'.player) > 0) =>
                /\ HourglassBonus(state', ret'.player) =
                       HourglassBonus(state, ret'.player) - 1
                /\ ret'.extra_turn
       /\ (MoveStep /\ CompletedNow # {}) =>
                HourglassBonus(state', ret'.player) >= HourglassBonus(state, ret'.player)]_vars

\* A bonus has just been spent: an extra turn without a completed cell, and
\* the mover holds a claimed hourglass but no bonus any more.
C9_Witness ==
    /\ ret.op = "apply_move" /\ ret.extra_turn
    /\ LastMoveCells = {}
    /\ HourglassBonus(state, ret.player) = 0
    /\ \E c \in Cells : /\ state.cells[c] = ret.player
                        /\ c \in DOMAIN state.artifacts
                        /\ state.artifacts[c] = "hourglass"

\* --------------------------------------------------------------------- C10
\* C10: a move that completes a cell carrying an hourglass banks exactly one
\* bonus turn for the mover, returns extra_turn = true and leaves the banked
\* bonus unspent.
C10_HourglassBanked ==
    [][MoveStep =>
        LET p  == ret'.player
            hg == {c \in CompletedNow : /\ c \in DOMAIN state.artifacts
                                        /\ state.artifacts[c] = "hourglass"}
        IN  hg # {} =>
                /\ ret'.extra_turn
                /\ state'.turn = p
                /\ HourglassBonus(state', p) = HourglassBonus(state, p) + Cardinality(hg)]_vars

\* The last move completed an hourglass cell and its bonus is banked.
C10_Witness ==
    /\ ret.op = "apply_move" /\ ret.extra_turn
    /\ \E c \in LastMoveCells : /\ c \in DOMAIN state.artifacts
                                /\ state.artifacts[c] = "hourglass"
    /\ HourglassBonus(state, ret.player) = 1

\* ------------------------------------------------------- gauntlet vocabulary
\* The gauntlet trackers of player q in state s.
GauntletTrackers(s, q) ==
    <<s.gauntlet_available[q], s.gauntlet_timer[q], s.gauntlet_cell[q]>>

\* The gauntlet cells the move of this step completed.
GauntletsPickedNow ==
    {c \in CompletedNow : /\ c \in DOMAIN state.artifacts
                          /\ state.artifacts[c] = "gauntlet"}

\* --------------------------------------------------------------------- C11
\* C11: a move that completes a cell carrying a gauntlet leaves the mover
\* with gauntlet_available = true, gauntlet_timer = 5 and that cell as the
\* gauntlet source cell, the cell is no longer a key of artifacts, and the
\* other player's gauntlet trackers are unchanged.
C11_GauntletPickup ==
    [][(MoveStep /\ GauntletsPickedNow # {}) =>
        LET p == ret'.player
        IN  /\ state'.gauntlet_available[p]
            /\ state'.gauntlet_timer[p] = 5
            /\ state'.gauntlet_cell[p] \in GauntletsPickedNow
            /\ \A c \in GauntletsPickedNow : c \notin DOMAIN state'.artifacts
            /\ GauntletTrackers(state', 1 - p) = GauntletTrackers(state, 1 - p)]_vars

\* The last move completed the cell the mover's fresh gauntlet comes from.
C11_Witness ==
    /\ ret.op = "apply_move"
    /\ state.gauntlet_available[ret.player]
    /\ state.gauntlet_timer[ret.player] = 5
    /\ state.gauntlet_cell[ret.player] \in LastMoveCells
    /\ state.claimed_items[state.gauntlet_cell[ret.player]] = "gauntlet"

C13_GauntletNoOp ==
    \A p \in Players, a \in GauntletAmounts :
        (~state.gauntlet_available[p] \/ state.last_treasure_value[1 - p] <= 0) =>
            LET r == use_gauntlet(state, p, a)
            IN  /\ r.score = state.score
                /\ \A q \in Players : GauntletTrackers(r, q) = GauntletTrackers(state, q)
                /\ r.artifacts = state.artifacts
                /\ r.claimed_items = state.claimed_items
                /\ r = state

\* A player holds a gauntlet while the opponent has collected no treasure,
\* and the other player holds none.
C13_Witness ==
    \E p \in Players :
        /\ state.gauntlet_available[p]
        /\ state.last_treasure_value[1 - p] = 0
        /\ ~state.gauntlet_available[1 - p]
        /\ state.last_treasure_value[p] > 0

\* --------------------------------------------------------------------- C14
\* C14: a use_gauntlet call without an amount that is not a no-op moves
\* exactly min(opponent's last treasure value, opponent's score) from the
\* opponent's score to the player's score.
C14_GauntletSteal ==
    [][(GauntletStep /\ ret'.amount = <<>>) =>
        LET p     == ret'.player
            o     == 1 - p
            last  == state.last_treasure_value[o]
            steal == IF last < state.score[o] THEN last ELSE state.score[o]
        IN  /\ state'.score[o] = state.score[o] - steal
            /\ state'.score[p] = state.score[p] + steal]_vars

\* A steal right after a move, capped by the opponent's score: the opponent
\* had fewer points than the last treasure value and is left with 0.
C14_Witness ==
    LET p == ret.player
        o == 1 - ret.player
    IN  /\ ret.op = "use_gauntlet" /\ ret.amount = <<>>
        /\ state.score[o] = 0
        /\ input.score[o] > 0
        /\ input.score[o] < state.last_treasure_value[o]
        /\ state.score[p] >= input.score[p] + input.score[o]
        /\ ScoreTotal(state) >= ScoreTotal(input)

\* --------------------------------------------------------------------- C15
\* C15: for every requested amount (none or any integer), the points a
\* use_gauntlet call moves to the player are at most the opponent's last
\* treasure value and at most the opponent's score, they are taken from the
\* opponent, and no score is negative afterwards.
C15_AmountClamped ==
    [][GauntletStep =>
        LET p     == ret'.player
            o     == 1 - p
            moved == state'.score[p] - state.score[p]
        IN  /\ moved <= state.last_treasure_value[o]
            /\ moved <= state.score[o]
            /\ state'.score[o] = state.score[o] - moved
            /\ \A q \in Players : state'.score[q] >= 0]_vars

\* --------------------------------------------------------------------- C16
\* C16: every use_gauntlet call that is not a no-op, whatever amount it was
\* given, leaves the player with gauntlet_available = false, timer 0 and no
\* source cell, so that a further use_gauntlet by that player returns the
\* state unchanged; a gauntlet becomes available again only by a move of
\* that player that completes a gauntlet cell.
C16_GauntletConsumed ==
    [][/\ GauntletStep =>
            LET p == ret'.player
            IN  /\ GauntletTrackers(state', p) = <<FALSE, 0, None>>
                /\ \A a \in GauntletAmounts : use_gauntlet(state', p, a) = state'
       /\ \A q \in Players :
            (state'.gauntlet_available[q] /\ ~state.gauntlet_available[q]) =>
                (MoveStep /\ ret'.player = q /\ GauntletsPickedNow # {})]_vars

\* A gauntlet was used with a requested amount below what could be stolen.
C16_Witness ==
    /\ ret.op = "use_gauntlet"
    /\ ret.amount # <<>>
    /\ ret.amount[1] >= 0
    /\ ret.amount[1] < state.last_treasure_value[1 - ret.player]
    /\ ret.amount[1] < state.score[1 - ret.player]
    /\ ~state.gauntlet_available[ret.player]

\* -------------------------------------------------------- compass vocabulary
\* The compass trackers of player q in state s.
CompassTrackers(s, q) == <<s.compass_available[q], s.compass_cell[q]>>

\* use_compass(s, p, target) passes both of its guards.
CompassUsable(s, p, target) ==
    /\ s.compass_available[p]
    /\ s.compass_cell[p] # None
    /\ target \in DOMAIN s.cells
    /\ s.cells[target] = 1 - p

\* --------------------------------------------------------------------- C17
\* C17: use_compass returns the state it was given (cell owners, scores,
\* artifacts, claimed_items, compass trackers) unless the player has an
\* available compass with a source cell and the target is owned by the
\* opponent; in particular for an unclaimed target, a target the player
\* owns and a target that is not on the board.
C17_CompassNoOp ==
    \A p \in Players, target \in Cells \cup {OffBoardCell} :
        ~CompassUsable(state, p, target) =>
            LET r == use_compass(state, p, target)
            IN  /\ r.cells = state.cells
                /\ r.score = state.score
                /\ r.artifacts = state.artifacts
                /\ r.claimed_items = state.claimed_items
                /\ \A q \in Players : CompassTrackers(r, q) = CompassTrackers(state, q)
                /\ r = state

\* A player holds a compass while the board has an unclaimed cell, a cell of
\* the holder and a cell of the opponent.
C17_Witness ==
    \E p \in Players :
        /\ state.compass_available[p]
        /\ state.compass_cell[p] # None
        /\ \E c \in Cells : state.cells[c] = -1
        /\ \E c \in Cells : state.cells[c] = p
        /\ \E c \in Cells : state.cells[c] = 1 - p

C19_CompassScores ==
    [][CompassStep =>
        LET p      == ret'.player
            source == state.compass_cell[p]
            target == ret'.target
            delta  == TreasureValue(state, target) - TreasureValue(state, source)
        IN  /\ state'.score[p] = state.score[p] + delta
            /\ state'.score[1 - p] = state.score[1 - p] - delta
            /\ state'.treasures = state.treasures]_vars

\* A compass was used on a target that carries a treasure.
C19_Witness ==
    /\ ret.op = "use_compass"
    /\ ret.target \in DOMAIN state.treasures
    /\ TreasureValue(state, ret.target) > 0
    /\ state.cells[ret.target] = ret.player

\* --------------------------------------------------------------------- C20
\* The value of an exhaustive minimax over s to the given depth: no pruning,
\* no table; the maximizing side moves as player 1, the other as player 0,
\* and a side that earns an extra turn moves again.
RECURSIVE exhaustive(_, _, _)
exhaustive(s, depth, maximizingPlayer) ==
    IF depth = 0 \/ is_terminal(s)
    THEN evaluate(s)
    ELSE LET child(m) ==
                 Only({ exhaustive(res.new_state, depth - 1,
                                   IF maximizingPlayer THEN res.extra_turn
                                   ELSE ~res.extra_turn)
                        : res \in {apply_move(s, m, IF maximizingPlayer
                                                    THEN 1 ELSE 0)} })
         IN  Only({ IF maximizingPlayer
                    THEN CHOOSE v \in vals : \A w \in vals : w <= v
                    ELSE CHOOSE v \in vals : \A w \in vals : v <= w
                    : vals \in {{child(m) : m \in Range(get_possible_moves(s))}} })

\* C20: the value minimax returns for a state and a depth, started with the
\* window -inf/+inf and an empty table, is the value of the exhaustive
\* minimax over that state and depth.
C20_SearchValueExact ==
    ret.op = "minimax" =>
        ret.search[2] = exhaustive(state, ret.search[1], TRUE)

\* ------------------------------------------------ transposition table
\* The value of a search of s at depth that starts from an empty table.
FreshValue(s, depth) ==
    minimax(s, depth, -Infinity, Infinity, TRUE, EmptyTable).value

\* C21 (as stated): a search whose table was filled by a prior search of
\* the same state at the same or a greater depth returns the value of a
\* search with a fresh empty table.
C21_PrepopulatedTableSameValue ==
    (ret.op = "minimax" /\ ret.search[3] # <<>>
        /\ ret.search[3][1] >= ret.search[1])
        => ret.search[2] = FreshValue(state, ret.search[1])

\* C21 (amended): a search whose table was filled by prior searches of the
\* same state, the deepest of them at the requested depth, returns the
\* value of a search with a fresh empty table.
C21_SameDepthTableSameValue ==
    (ret.op = "minimax" /\ ret.search[3] = <<ret.search[1]>>)
        => ret.search[2] = FreshValue(state, ret.search[1])

\* A position was searched again at the depth of its deepest search, and
\* a search one level less deep would have returned another value.
C21_Witness ==
    /\ ret.op = "minimax"
    /\ ret.search[3] = <<ret.search[1]>>
    /\ ret.search[1] > 2
    /\ ret.search[2] = FreshValue(state, ret.search[1])
    /\ ret.search[2] # FreshValue(state, ret.search[1] - 1)

\* --------------------------------------------------------- returned move
\* C22 (as stated): every call of minimax on a state with an unclaimed edge
\* returns an unclaimed edge of that state, never None, also when the
\* result is read from the table.
C22_ReturnsUnclaimedEdge ==
    ret.op = "minimax"
        => /\ ret.move \in Range(get_possible_moves(state))
           /\ ret.audit.move_legal

\* C22 (amended): every call of minimax with depth >= 1 on a state with an
\* unclaimed edge returns an unclaimed edge of that state, never None, also
\* when the result is read from the table.
C22_ReturnsUnclaimedEdgeAboveLeaf ==
    ret.op = "minimax"
        => /\ ret.move \in Range(get_possible_moves(state))
           /\ ret.audit.move_deep

\* A search of a state with several unclaimed edges whose result was read
\* from the table: the call made no other call.
C22_Witness ==
    /\ ret.op = "minimax"
    /\ ret.search[3] # <<>>
    /\ ret.search[3][1] >= ret.search[1]
    /\ ret.audit.height = 0
    /\ Len(get_possible_moves(state)) > 1
    /\ ret.move \in Range(get_possible_moves(state))

\* -------------------------------------------------------------- leaves
\* C23: every call of minimax with depth 0 or on a terminal state returns
\* (score[1] - score[0] of that state, None).
C23_LeafReturnsEvaluate ==
    ret.op = "minimax" => ret.audit.leaf_exact

\* ------------------------------------------------------ reuse of entries
\* The table held an entry for the searched state that was at least as deep
\* as the search.
DeepEnough == ret.search[3] # <<>> /\ ret.search[3][1] >= ret.search[1]

\* C24: minimax returns a stored entry only if the entry was computed at a
\* depth >= the requested one: no call read a shallower entry, the search
\* of a state made no further call exactly when the table held a deep
\* enough entry for it, that entry was then returned and kept, and a
\* shallower one was replaced by the newly computed result.
C24_TableDepthRule ==
    ret.op = "minimax"
        => /\ ret.audit.hits_deep
           /\ (ret.audit.height = 0) <=> DeepEnough
           /\ hash_state(state) \in DOMAIN transposition_table
           /\ transposition_table[hash_state(state)] =
                  [value |-> ret.search[2], move |-> ret.move,
                   depth |-> IF DeepEnough THEN ret.search[3][1]
                             ELSE ret.search[1]]
           /\ ~DeepEnough
                  => ret.search[2] = FreshValue(state, ret.search[1])

\* A state searched at depth 2 was searched again at a greater depth: the
\* depth-2 entry was replaced, and by another value.
C24_Witness ==
    /\ ret.op = "minimax"
    /\ ret.search[3] = <<2>>
    /\ ret.search[1] > 2
    /\ transposition_table[hash_state(state)].depth = ret.search[1]
    /\ ret.search[2] # FreshValue(state, 2)

\* --------------------------------------------------- frame of the search
\* C25: a call of minimax leaves the state it is given as it was (edges,
\* cells, score, turn, last_move, item maps and per-player trackers), and
\* the other objects of the match with it; only the table changes.
C25_SearchKeepsState ==
    [][ret'.op = "minimax"
           => /\ \A f \in DOMAIN state : f \in DOMAIN state' /\ state'[f] = state[f]
              /\ DOMAIN state' = DOMAIN state
              /\ input' = input
              /\ shared' = shared]_vars

\* A search that simulated moves three deep and filled the table has
\* returned, and the state still has the unclaimed edges that were searched.
C25_Witness ==
    /\ ret.op = "minimax"
    /\ ret.audit.height >= 3
    /\ ret.search[3] = <<>>
    /\ Cardinality(DOMAIN transposition_table) > 3
    /\ Len(get_possible_moves(state)) >= 3
    /\ state.turn = 1

\* ------------------------------------------------------- configuration
\* C26: a search with depth < 0 is rejected as a configuration error before
\* any move is searched: the call raises and produces no result.
C26_NegativeDepthRejected ==
    (ret.op = "minimax" /\ ret.search[1] < 0)
        => (ret.raised /\ ret.move = None /\ transposition_table = EmptyTable)

\* ------------------------------------------------------ items of a cell
\* C27: in the state a match starts from and in every later state no cell
\* carries both a treasure and an artifact.
C27_TreasureArtifactDisjoint ==
    DOMAIN state.treasures \cap DOMAIN state.artifacts = {}

\* ---------------------------------------------------- committed moves
\* C28: every move the game loop commits claims exactly one edge, one that
\* was unclaimed right before, for the player whose turn it was (the human
\* as player 0, the AI as player 1); no step of the loop changes the owner
\* of an owned edge.
C28_MovesByMoverOnUnclaimed ==
    [][/\ \A e \in DOMAIN state.edges :
              state.edges[e] # -1 => state'.edges[e] = state.edges[e]
       /\ nmoves' # nmoves
              => /\ ret'.op = "apply_move"
                 /\ ret'.player = state.turn
                 /\ state.edges[ret'.move] = -1
                 /\ state'.edges[ret'.move] = state.turn
                 /\ \A e \in DOMAIN state.edges \ {ret'.move} :
                        state'.edges[e] = state.edges[e]]_vars

\* The human has moved after a searched move of the AI, late in a match.
C28_Witness ==
    /\ ret.op = "apply_move"
    /\ ret.player = 0
    /\ transposition_table # EmptyTable
    /\ nmoves > 69
    /\ state.edges[ret.move] = 0

\* ------------------------------------------------------- move ordering
\* The unclaimed cells that have edge e and would have n of their edges
\* drawn if e were played.
CellsReaching(s, e, n) ==
    {c \in DOMAIN s.cells :
        /\ e \in CellEdgeSet(c)
        /\ s.cells[c] = -1
        /\ Cardinality({x \in CellEdgeSet(c) : Owned(s, x)} \cup {e}) = n}

OrderingScore(s, e) ==
    100 * Cardinality(CellsReaching(s, e, 6))
    + 50 * Cardinality(CellsReaching(s, e, 5))

\* The position of e in seq.
IndexOf(seq, e) == CHOOSE i \in 1..Len(seq) : seq[i] = e

\* ordered holds the edges of moves once each, by score (descending or
\* ascending) and, within a score, in the order of moves: each edge stands
\* before its successor in that order.
IsOrdering(ordered, moves, score, descending) ==
    /\ Len(ordered) = Len(moves)
    /\ Range(ordered) = Range(moves)
    /\ \A i \in 1..(Len(ordered) - 1) :
           \/ IF descending
              THEN score[ordered[i]] > score[ordered[i + 1]]
              ELSE score[ordered[i]] < score[ordered[i + 1]]
           \/ /\ score[ordered[i]] = score[ordered[i + 1]]
              /\ IndexOf(moves, ordered[i]) < IndexOf(moves, ordered[i + 1])

\* C29: order_moves returns a permutation of the unclaimed edges, sorted by
\* the +100 / +50 score, descending for the maximizing side and ascending
\* for the minimizing side, ties in the order of get_possible_moves.
C29_OrderMoves ==
    \A moves \in {get_possible_moves(state)} :
        \A score \in {[e \in Range(moves) |-> OrderingScore(state, e)]} :
            \A maximizing_player \in BOOLEAN :
                IsOrdering(order_moves(state, moves, maximizing_player),
                           moves, score, maximizing_player)

\* A state whose unclaimed edges score 100, 50 and 0, so that the two
\* orders differ from each other and from the order of get_possible_moves.
C29_Witness ==
    \E moves \in {get_possible_moves(state)} :
        /\ \A v \in {0, 50, 100} :
               \E e \in Range(moves) : OrderingScore(state, e) = v
        /\ OrderingScore(state, order_moves(state, moves, TRUE)[1]) >= 100
        /\ OrderingScore(state, order_moves(state, moves, FALSE)[1]) = 0
        /\ order_moves(state, moves, TRUE) # moves
        /\ order_moves(state, moves, FALSE) # moves

\* ------------------------------------------------- depth and side
\* C30: in a search from a root with maximizingPlayer = (turn == 1), every
\* call has maximizingPlayer true exactly when the turn of its state is
\* player 1 (the child of a move with extra_turn keeps the flag, the other
\* children get it flipped), and each child is searched with depth - 1: no
\* chain of calls is longer than the depth, and the first search of a state
\* has one as long as the depth and the unclaimed edges allow.
C30_FlagFollowsTurn ==
    ret.op = "minimax"
        => /\ ret.audit.flag_turn
           /\ ret.audit.height <= ret.search[1]
           /\ ret.search[3] = <<>>
                  => \/ ret.audit.height = ret.search[1]
                     \/ ret.audit.height = Len(get_possible_moves(state))

\* A search three calls deep in which one simulated move earned an extra
\* turn and another passed the turn.
C30_Witness ==
    /\ ret.op = "minimax"
    /\ ret.audit.kept
    /\ ret.audit.flipped
    /\ ret.audit.height = 3
    /\ Len(get_possible_moves(state)) > 3
    /\ ret.audit.flag_turn

\* ------------------------------------------------------------- scores
\* C33: in every state reached by apply_move, use_gauntlet (without an
\* amount) and use_compass calls, both scores are >= 0.
C33_ScoresNonNegative ==
    \A p \in Players : state.score[p] >= 0

\* ------------------------------------------------------------ best move
\* C31: in every call of minimax that examines moves, the move returned is
\* the first one, in the order examined, whose value is the value returned;
\* a later move with an equal value does not replace it.
C31_FirstBestMoveWins ==
    ret.op = "minimax" => ret.audit.first_best

\* A first search in which a later move had the value of the move returned.
C31_Witness ==
    /\ ret.op = "minimax"
    /\ ret.search[3] = <<>>
    /\ ret.audit.ties
    /\ ret.audit.first_best
    /\ ret.audit.height >= 2

\* ------------------------------------------------------ key of the table
\* The fields of a state that its edge-to-owner assignment is said to
\* determine.
Position(s) ==
    [turn |-> s.turn, score |-> s.score, cells |-> s.cells,
     gauntlet_available |-> s.gauntlet_available,
     gauntlet_timer |-> s.gauntlet_timer,
     gauntlet_cell |-> s.gauntlet_cell,
     compass_available |-> s.compass_available,
     compass_cell |-> s.compass_cell,
     last_treasure_value |-> s.last_treasure_value]

\* C32: two states of a match with the same edge-to-owner assignment have
\* the same side to move, scores, cell owners and item trackers (stated of
\* a state of the match and the state that follows it).
C32_EdgesDetermineState ==
    [][hash_state(state') = hash_state(state)
           => Position(state') = Position(state)]_vars

\* --------------------------------------------------- gauntlet trackers
\* C35: for each player, gauntlet_available is true exactly when
\* gauntlet_timer is between 1 and 5 and exactly when a gauntlet source
\* cell is recorded; when it is false the timer is 0 and no cell is
\* recorded.
C35_GauntletTrackersAgree ==
    \A p \in Players :
        /\ state.gauntlet_available[p] <=> state.gauntlet_timer[p] \in 1..5
        /\ state.gauntlet_available[p] <=> state.gauntlet_cell[p] # None
        /\ ~state.gauntlet_available[p]
               => state.gauntlet_timer[p] = 0 /\ state.gauntlet_cell[p] = None

\* A player holds a gauntlet picked up some moves ago, on a cell the player
\* owns, and the other player holds none.
C35_Witness ==
    \E p \in Players :
        /\ state.gauntlet_available[p]
        /\ state.gauntlet_timer[p] \in 1..3
        /\ state.gauntlet_cell[p] \in Cells
        /\ state.cells[state.gauntlet_cell[p]] = p
        /\ ~state.gauntlet_available[1 - p]
        /\ ret.op = "apply_move"

\* ------------------------------------------------------- the last move
\* C36: the move that claims the last unclaimed edge completes a cell and
\* returns extra_turn = True, so the turn of a terminal state is the player
\* of the final move: a terminal state with turn 1 is the state the AI
\* branch itself has just produced, never one the branch is entered with.
C36_LastMoveKeepsTurn ==
    [][(nmoves' # nmoves /\ is_terminal(state'))
           => /\ ret'.op = "apply_move"
              /\ ret'.extra_turn
              /\ CompletedNow # {}
              /\ ret'.player = state.turn
              /\ state'.turn = ret'.player
              /\ (state'.turn = 1 => state.turn = 1)]_vars

\* The human has drawn the last edge of the board: the match is over with
\* the turn on player 0.
C36_Witness ==
    /\ is_terminal(state)
    /\ ret.op = "apply_move"
    /\ ret.player = 0
    /\ ret.extra_turn
    /\ state.turn = 0
    /\ nmoves = NumEdges

\* ------------------------------------------------- the AI's gauntlet
\* The state apply_move returned for the AI move of this step, before the
\* loop looked at the gauntlet.
MovedOnly == apply_move(state, ret'.move, 1).new_state

AIMoveStep == nmoves' # nmoves /\ ret'.op = "apply_move" /\ ret'.player = 1

\* C37: after every move the game loop commits for the AI, the AI does not
\* hold an available gauntlet while the last treasure value of player 0 is
\* positive: in that situation it has used the gauntlet, and the score of
\* player 0 after the steal is >= 0.
C37_AIUsesGauntletAtOnce ==
    [][AIMoveStep
           => /\ ~(state'.gauntlet_available[1]
                   /\ state'.last_treasure_value[0] > 0)
              /\ (MovedOnly.gauntlet_available[1]
                  /\ MovedOnly.last_treasure_value[0] > 0
                     => /\ state'.score[0] >= 0
                        /\ state'.score[0] + state'.score[1]
                               = MovedOnly.score[0] + MovedOnly.score[1])]_vars

\* The AI has just closed the gauntlet cell after player 0 claimed a
\* treasure, and the gauntlet is already spent: its cell belongs to the AI
\* and carries no artifact any more.
C37_Witness ==
    /\ ret.op = "apply_move"
    /\ ret.player = 1
    /\ state.last_treasure_value[0] > 0
    /\ ~state.gauntlet_available[1]
    /\ \E cell \in {<<0, 1>>} :
           /\ ret.move \in Range(cell_edges[cell])
           /\ state.cells[cell] = 1
           /\ cell \notin DOMAIN state.artifacts
    /\ state.score[0] >= 0

\* ------------------------------------------------- depths in the table
\* C39: over the lifetime of a transposition table the depth recorded for a
\* key never decreases: every store of a search goes to a key that is new or
\* holds a result of a strictly smaller depth, so no key is lost and no
\* recorded depth is smaller after a search than before it.
C39_RecordedDepthNeverDecreases ==
    [][/\ ret'.op = "minimax" => ret'.audit.stores_up
       /\ \A key \in DOMAIN transposition_table :
              /\ key \in DOMAIN transposition_table'
              /\ transposition_table'[key].depth
                     >= transposition_table[key].depth]_vars

\* A state whose entry had depth 3 was searched at depth 4: its entry and
\* entries below it were overwritten by deeper results.
C39_Witness ==
    /\ ret.op = "minimax"
    /\ ret.search[3] = <<3>>
    /\ ret.search[1] = 4
    /\ ret.audit.stores_up
    /\ ret.audit.height >= 2
    /\ transposition_table[hash_state(state)].depth = 4
    /\ \E key \in DOMAIN transposition_table :
           transposition_table[key].depth = 0

\* ------------------------------------------------------ settings screen
\* settings as main() builds it, on the opening screen.
DefaultSettings ==
    [board_radius |-> 2, ai_depth |-> 3, current_state |-> "OPENING_SCREEN"]

\* The buttons of the settings screen under a click.  The rows of the - and
\* + buttons are 40 apart and 50 high, so a click can be on the radius and
\* the depth button of one column at once.
Clicks ==
    {{}, {"radius_minus"}, {"radius_plus"}, {"depth_minus"}, {"depth_plus"},
     {"radius_minus", "depth_minus"}, {"radius_plus", "depth_plus"}}

\* Variant: the radius is decreased whatever it is.
RadiusDecreaseAlways(s, hit) ==
    IF "radius_minus" \in hit
    THEN [s EXCEPT !.board_radius = @ - 1]
    ELSE s

\* Radius decrease button.
RadiusDecrease(s, hit) ==
    IF "radius_minus" \in hit /\ s.board_radius > 1
    THEN [s EXCEPT !.board_radius = @ - 1]
    ELSE s

\* Radius increase button.
RadiusIncrease(s, hit) ==
    IF "radius_plus" \in hit /\ s.board_radius < 4
    THEN [s EXCEPT !.board_radius = @ + 1]
    ELSE s

\* Depth decrease button.
DepthDecrease(s, hit) ==
    IF "depth_minus" \in hit /\ s.ai_depth > 2
    THEN [s EXCEPT !.ai_depth = @ - 1]
    ELSE s

\* Depth increase button.
DepthIncrease(s, hit) ==
    IF "depth_plus" \in hit /\ s.ai_depth < 4
    THEN [s EXCEPT !.ai_depth = @ + 1]
    ELSE s

\* handle_settings_events on a mouse click that is not on the back button:
\* the four buttons are tested one after the other.
handle_settings_events(s, hit) ==
    DepthIncrease(DepthDecrease(RadiusIncrease(RadiusDecrease(s, hit), hit),
                                hit), hit)

\* main() before a match: there is no state object yet.
SettingsInit ==
    /\ settings = DefaultSettings
    /\ state = None
    /\ input = None
    /\ shared = {}
    /\ ret = Call("main", 0, None, None, FALSE)
    /\ nmoves = 0
    /\ ninvalid = 0
    /\ transposition_table = EmptyTable

\* The Settings button of the opening screen.
OpenSettings ==
    /\ settings.current_state = "OPENING_SCREEN"
    /\ settings' = [settings EXCEPT !.current_state = "SETTINGS_SCREEN"]
    /\ UNCHANGED <<state, input, shared, ret, nmoves, ninvalid,
                   transposition_table>>

\* A click on the settings screen.
SettingsClick ==
    \E hit \in Clicks :
        /\ settings.current_state = "SETTINGS_SCREEN"
        /\ settings' = handle_settings_events(settings, hit)
        /\ UNCHANGED <<state, input, shared, ret, nmoves, ninvalid,
                       transposition_table>>

\* The Back button of the settings screen.
SettingsBack ==
    /\ settings.current_state = "SETTINGS_SCREEN"
    /\ settings' = [settings EXCEPT !.current_state = "OPENING_SCREEN"]
    /\ UNCHANGED <<state, input, shared, ret, nmoves, ninvalid,
                   transposition_table>>

\* The Start Game button: run_game_loop sets DEPTH = settings['ai_depth'],
\* builds state = init_state(settings['board_radius'], ...), applies the
\* overrides and starts with an empty table.  The board is built here for
\* the radius BOARD_RADIUS; for another radius the step only records the
\* radius handed to init_state.
StartGame ==
    /\ settings.current_state = "OPENING_SCREEN"
    /\ settings' = [settings EXCEPT !.current_state = "GAME_RUNNING"]
    /\ ret' = [Call("run_game_loop", 0, None, None, FALSE)
                  EXCEPT !.search = <<settings.ai_depth,
                                      settings.board_radius>>]
    /\ \E seed \in Seeds, pick \in Picks :
           state' = IF settings.board_radius = BOARD_RADIUS
                    THEN TestOverrides(init_state(seed, pick))
                    ELSE None
    /\ input' = state'
    /\ shared' = {}
    /\ nmoves' = 0
    /\ ninvalid' = 0
    /\ transposition_table' = EmptyTable

\* run_game_loop returns: main() goes back to the opening screen.
GameReturns ==
    /\ settings.current_state = "GAME_RUNNING"
    /\ settings' = [settings EXCEPT !.current_state = "OPENING_SCREEN"]
    /\ UNCHANGED <<state, input, shared, ret, nmoves, ninvalid,
                   transposition_table>>

NextSettings ==
    OpenSettings \/ SettingsClick \/ SettingsBack \/ StartGame \/ GameReturns

\* The screens of main() around the matches.
SpecSettings == SettingsInit /\ [][NextSettings]_vars

\* C38: after any sequence of clicks on the settings screen, starting from
\* the defaults (radius 2, depth 3), the configured radius is within 1..4
\* and the configured depth within 2..4, and a match that is started hands
\* these values on: never a radius < 1 to init_state, never a depth < 0 to
\* the search.
C38_SettingsStayInRange ==
    /\ settings.board_radius \in 1..4
    /\ settings.ai_depth \in 2..4
    /\ ret.op = "run_game_loop"
           => /\ ret.search[1] \in 2..4
              /\ ret.search[2] \in 1..4
              /\ settings.current_state = "GAME_RUNNING"
                     => ret.search = <<settings.ai_depth,
                                       settings.board_radius>>

\* A match was started with the least radius and the least depth: the -
\* buttons were clicked down to the bounds of both settings.
C38_Witness ==
    /\ settings.current_state = "GAME_RUNNING"
    /\ settings.board_radius = 1
    /\ settings.ai_depth = 2
    /\ ret.op = "run_game_loop"
    /\ ret.search = <<2, 1>>

\* ----------------------------------------------------- two compasses
\* A match on the board of LargeRadius, which has three artifact cells: the
\* choices of random.choice for them, one digit of pick each.
LargePicks == 0..(Len(ARTIFACTS) ^ ArtifactCountOf(large_valid_cells) - 1)

LargeInit ==
    \E seed \in Seeds, pick \in LargePicks :
        /\ state = TestOverrides(InitStateOf(large_valid_cells, LargeEdges,
                                             seed, pick))
        /\ input = state
        /\ shared = {}
        /\ ret = Call("init_state", 0, None, None, FALSE)
        /\ nmoves = 0
        /\ ninvalid = 0
        /\ transposition_table = EmptyTable
        /\ settings = [MatchSettings EXCEPT !.board_radius = LargeRadius]

\* A cell of the rim away from the artifact cells, on which a turn can pass.
LargeSpareCell == <<0, -LargeRadius>>

\* The edges a mover is offered: the first unclaimed edge of the first
\* shuffled artifact cell that is not closed and, while fewer than MaxSpare
\* edges of the spare cell are drawn, the first unclaimed edge of that cell.
LargeMoves(s) ==
    LET open == SelectSeq(large_valid_cells, LAMBDA c :
                    /\ c \in DOMAIN s.artifacts
                    /\ c # TestGauntletCell
                    /\ ~AllEdgesOwnedIn(s, c))
        drawn == Cardinality({i \in 1..6 :
                                 s.edges[cell_edges[LargeSpareCell][i]] # -1})
    IN  (IF open = <<>> THEN {} ELSE {FirstOpenEdge(s, Head(open))})
        \cup (IF open # <<>> /\ drawn < MaxSpare
              THEN {FirstOpenEdge(s, LargeSpareCell)} ELSE {})

\* A move of the player to move.
LargeMove ==
    \E move \in LargeMoves(state) :
        /\ DoApplyMove(move, state.turn)
        /\ UNCHANGED <<ninvalid, transposition_table, settings>>

\* The human clicks a cell while holding a compass: use_compass(state, 0,
\* cell).
LargeCompass ==
    \E target_cell \in LargeCells :
        /\ use_compass(state, 0, target_cell) # state
        /\ state' = use_compass(state, 0, target_cell)
        /\ input' = WriteThrough(input, state', shared)
        /\ ret' = Call("use_compass", 0, None, target_cell, FALSE)
        /\ UNCHANGED <<shared, nmoves, ninvalid, transposition_table, settings>>

NextLarge == LargeMove \/ LargeCompass

SpecLarge == LargeInit /\ [][NextLarge]_vars

\* The number of cells of s that player p owns.
OwnedCells(s, p) == Cardinality({c \in DOMAIN s.cells : s.cells[c] = p})

\* C34: whenever compass_available[p] is true, the recorded compass source
\* cell of p is a cell that p owns, so a successful use_compass exchanges one
\* cell of each player and leaves the number of cells of each player as it
\* was.
C34_CompassSourceOwned ==
    [][/\ \A p \in Players :
              state'.compass_available[p]
                  => /\ state'.compass_cell[p] \in DOMAIN state'.cells
                     /\ state'.cells[state'.compass_cell[p]] = p
       /\ ret'.op = "use_compass" /\ state' # state
              => /\ \A p \in Players :
                        OwnedCells(state', p) = OwnedCells(state, p)
                 /\ state.cells[state.compass_cell[ret'.player]] = ret'.player
                 /\ state'.cells[state.compass_cell[ret'.player]]
                        = 1 - ret'.player
                 /\ state'.cells[ret'.target] = ret'.player]_vars

====
